---- MODULE Spec2Model ----
(***************************************************************************)
(* MultiTaskTrainer (src/src/codebase/trainer.py): the multi-task training *)
(* loop, its early stopping, learning-rate adaptation and checkpointing.   *)
(*                                                                         *)
(* One behaviour is one trainer configuration and a sequence of runs on    *)
(* one serialization directory.  Every run is a new process: it constructs *)
(* the trainer and calls train() once.  A run may be killed at any point;  *)
(* the directory survives.  The runs of one behaviour pass train() the     *)
(* same arguments.                                                         *)
(*                                                                         *)
(* Numbers.  Validation scalars are in tenths (4 is 0.4).  Learning rates  *)
(* are in units of 0.001 / LRUnit, so that every halving is exact.         *)
(***************************************************************************)
EXTENDS Integers, Sequences, FiniteSets, TLC

(* ---- bounds ---- *)
NumEpochs == 4
MaxCalls == 2
MaxTrainBatches == 3
MaxPasses == 2
MaxPatience == 2

(* ---- inputs ---- *)
NTasks == 2
Tasks == 1..NTasks
Vals == {4, 5, 6}
NoValue == -1
LRUnit == 4 ^ MaxCalls
MinLR == LRUnit
InitLR == 4 * LRUnit

VARIABLES
    cfg,                    \* the trainer's configuration and the arguments of train()
    pc,                     \* position in train()
    status,                 \* how the latest call ended
    calls,                  \* number of train() calls started
    model,                  \* self._model.state_dict()
    optimizer,              \* self._optimizer.state_dict()
    dir,                    \* os.listdir(serialization_dir) with each file's content
    epoch_counter,
    epoch,
    validation_metric_per_epoch,
    task_infos,
    pass,
    task_idx,
    sliced,                 \* batches the running islice has yielded
    tr_loss,
    val_losses,
    batch_num,
    this_epoch_val_metric,
    is_best_so_far,
    restored,               \* epoch index restore returned in this call, or NoValue
    written,                \* epochs whose pair this call has written
    best_metric,            \* validation scalar of the epoch whose weights best.th holds
    top_checkpoint,         \* a per-epoch checkpoint of the directory and its scalar:
                            \* the best-scoring one written and not overwritten since
    saved,                  \* memory at the latest complete save of each epoch
    window,                 \* the part of the history the latest patience rule looked at
    all_tr_metrics,         \* the "<task>_loss" entries of the epoch, by task
    train_logs,             \* per task, the epoch-end scalars this call wrote to its train stream
    val_logs,               \* the same for its validation stream
    order,                  \* the training batches drawn in this epoch: <<pass, task, batch>>
    lr_steps,               \* the learning-rate adjustments at the end of this epoch, in order
    all_val_metrics,        \* the "<task>_loss" entries of the validation pass, by task
    val_order,              \* the validation batches forwarded in this epoch: <<task, batch, for_training>>
    batch_num_totals        \* per task, the values batch_num_total took in this call

vars == <<cfg, pc, status, calls, model, optimizer, dir, epoch_counter, epoch,
          validation_metric_per_epoch, task_infos, pass, task_idx, sliced,
          tr_loss, val_losses, batch_num, this_epoch_val_metric,
          is_best_so_far, restored, written, best_metric, top_checkpoint, saved,
          window,
          all_tr_metrics,
          train_logs,
          val_logs,
          order,
          lr_steps,
          all_val_metrics,
          val_order,
          batch_num_totals>>

(* ---- helpers ---- *)
Range(s) == {s[i] : i \in DOMAIN s}

SetMax(S) == CHOOSE x \in S : \A y \in S : y <= x

SetMin(S) == CHOOSE x \in S : \A y \in S : x <= y

\* python's max(list), min(list)
PyMax(s) == SetMax(Range(s))

PyMin(s) == SetMin(Range(s))

\* the scalar a is strictly better than the scalar b
Better(a, b, decreases) == IF decreases THEN a < b ELSE a > b

\* python's s[-n:]; -0 is 0, so s[-0:] is the whole list
PySliceLast(s, n) ==
    IF n = 0 \/ n >= Len(s) THEN s ELSE SubSeq(s, Len(s) - n + 1, Len(s))

\* file names of the serialization directory
ModelPath(e) == <<"model_state_epoch", e>>

TrainingStatePath(e) == <<"training_state_epoch", e>>

BestPath == <<"best", 0>>

\* write (create or overwrite) one file
Put(d, name, content) == (name :> content) @@ d

EmptyMap == [x \in {} |-> 0]

FreshModel == 0

FreshOptimizer == [lr |-> InitLR, state |-> 0]

FreshTaskInfos ==
    [t \in Tasks |-> [n_tr_batches |-> 0, n_val_batches |-> 0, n_batches_per_pass |-> 0,
                      tr_generator |-> 0, loss |-> 0, n_batches_trained |-> 0]]

(* ---- pure parts of train() ---- *)
\* mutant: the quotient rounded up
BatchesPerPassCeil(n_tr_batches, n_passes_per_epoch) ==
    (n_tr_batches + n_passes_per_epoch - 1) \div n_passes_per_epoch

\* int(n_tr_batches / n_passes_per_epoch)
BatchesPerPass(n_tr_batches, n_passes_per_epoch) ==
    n_tr_batches \div n_passes_per_epoch

\* mutant: the generator is created anew for every pass
NextBatchRestarted(generator, yielded) == yielded

\* the batch the islice yields next: the task's generator is created once per
\* epoch and kept in task_infos, so it goes on where the pass before left it
NextBatch(generator, yielded) == generator

\* mutant: the epoch is not multiplied by the task's number of batches
BatchNumTotalUnscaled(n_tr_batches, epoch_idx, n_batches_trained) ==
    epoch_idx + n_batches_trained

\* batch_num_total = n_tr_batches * epoch + n_batches_trained
BatchNumTotal(n_tr_batches, epoch_idx, n_batches_trained) ==
    n_tr_batches * epoch_idx + n_batches_trained

\* self._forward(batch, task, for_training=True): the output dictionary; a
\* batch of the task of index t has loss t
Forward(t, without_loss) ==
    IF t = without_loss THEN [logits |-> t] ELSE [logits |-> t, loss |-> t]

\* mutant: the counter incremented before the forward call is written back
AbortedBatchWrittenBack(info, n_batches_trained) ==
    [info EXCEPT !.n_batches_trained = n_batches_trained]

\* the task's record after a batch whose forward result has no "loss": the
\* ConfigurationError leaves the loop before the write-back of the local
\* n_batches_trained and tr_loss
AbortedBatch(info, n_batches_trained) == info

\* averages are in units of 1 / AvgUnit, so that the quotient by every batch
\* count up to 6 is exact
AvgUnit == 60

\* float(total / n)
Average(total, n) == (total * AvgUnit) \div n

\* tasks whose batches-trained counter is 0 at the end of the training passes
Untrained(infos) == {t \in Tasks : infos[t].n_batches_trained = 0}

\* the overall training logging of the tasks in `logged`: "<task>_loss" is the
\* local tr_loss, which the pass loops left at the running loss of the task
\* trained last, over the task's own batches-trained counter; every task has a
\* metric of its own, so the entry is written.  For an untrained task the
\* division raises ZeroDivisionError, which the except clause hands to
\* pdb.set_trace(): the debugger either continues with the next task, the
\* entry missing, or quits, which ends train()
OverallTrainingLogging(tr_loss_left, infos, logged) ==
    [t \in logged \ Untrained(infos) |->
        Average(tr_loss_left, infos[t].n_batches_trained)]

\* for_training of the validation pass's forward calls
ValidationMode == FALSE

\* mutant: the accumulated loss is recorded as it is
SealedValLossTotal(losses, idx, n) == losses[idx] * AvgUnit

\* all_val_metrics["<task>_loss"] = float(val_losses[task_idx] / batch_num)
SealedValLoss(losses, idx, n) == Average(losses[idx], n)

\* the epoch-end telemetry: for every name of all_tr_metrics one add_scalar
\* on logs[task_idx], task_idx being what the validation loop left in it; a
\* written scalar is kept as <<the task its name starts with, the step>>
AddScalars(logs, idx, metrics, step, serialization_dir) ==
    IF serialization_dir
    THEN [logs EXCEPT ![idx] = @ \cup {<<t, step>> : t \in DOMAIN metrics}]
    ELSE logs

\* mutant: a name that is no key reads as a default value
LookupDefaults(known) == FALSE

\* all_val_metrics[self._validation_metric] raises KeyError for a name that
\* is no key
LookupFails(known) == ~known

\* should_stop of the patience rule; H is the history before the append
ShouldStop(H, v, patience, decreases) ==
    /\ Len(H) > patience
    /\ IF decreases
       THEN PyMax(PySliceLast(H, patience)) < v
       ELSE PyMin(PySliceLast(H, patience)) > v

\* mutant: the scalar is appended before the patience rule decides
HistoryAppendFirst(H, v, should_stop) == Append(H, v)

\* validation_metric_per_epoch after the patience rule: the return of a
\* patience stop comes before the append
HistoryAfter(H, v, should_stop) == IF should_stop THEN H ELSE Append(H, v)

\* mutant: best only on a strict improvement over every earlier epoch
IsBestSoFarStrict(H, v, decreases) ==
    \A i \in 1..(Len(H) - 1) : IF decreases THEN v < H[i] ELSE v > H[i]

\* is_best_so_far; H is the history after the append
IsBestSoFar(H, v, decreases) ==
    IF decreases THEN v = PyMin(H) ELSE v = PyMax(H)

\* param_groups[0]['lr'] *= lr_decay, with lr_decay = 0.5
Decay(lr) == lr \div 2

\* learning_rate_scheduler.step(...): the configured scheduler is an exponential
\* one with factor 0.5
SchedulerStep(lr, scheduler) == IF scheduler THEN Decay(lr) ELSE lr

\* mutant: the flat decay does not look at is_best_so_far
FlatDecayAlways(lr, is_best, lr_decay) == IF lr_decay THEN Decay(lr) ELSE lr

\* the learning rate after the flat decay of one epoch
FlatDecay(lr, is_best, lr_decay) ==
    IF ~is_best /\ lr_decay THEN Decay(lr) ELSE lr

\* the adjustments of one epoch in the order of the code: the scheduler's
\* step, if one is configured, then the flat decay
LrSteps(scheduler, is_best, lr_decay) ==
    (IF scheduler THEN <<"scheduler">> ELSE <<>>)
       \o (IF ~is_best /\ lr_decay THEN <<"lr_decay">> ELSE <<>>)

\* mutant: a learning rate equal to min_lr stops as well
MinLrHitOrEqual(lr, min_lr) == lr <= min_lr

\* param_groups[0]['lr'] < min_lr
MinLrHit(lr, min_lr) == lr < min_lr

\* mutant: the stop is logged but the loop goes on
StopFallsThrough == "loop"

\* the exceptions that end train(): torch.load of a missing file, lr < None,
\* a forward result without "loss", a validation metric name that is no key,
\* a quit of the debugger that pdb.set_trace() opens
Errors ==
    {"FileNotFoundError", "TypeError", "ConfigurationError", "KeyError", "BdbQuit"}

\* where a stop decision sends control: return
StopTarget == "returned"

\* mutant: the checkpoint is skipped
AfterAppendNoSave(serialization_dir) == "lr"

\* where control goes after the history append
AfterAppend(serialization_dir) ==
    IF serialization_dir THEN "save_model" ELSE "lr"

(* ---- checkpoint store ---- *)
\* epochs of the files whose name contains "model_state_epoch"
ModelCheckpoints(d) == {n[2] : n \in {m \in DOMAIN d : m[1] = "model_state_epoch"}}

\* content of model_state_epoch_<e>.th
ModelFile(m) == [state_dict |-> m]

\* content of training_state_epoch_<e>.th
TrainingStateFile(e, opt) == [epoch |-> e, optimizer |-> opt]

\* epoch_to_load of _restore_checkpoint
EpochToLoad(d) == SetMax(ModelCheckpoints(d))

\* mutant: the optimizer state is loaded but not applied
RestoreModelOnly(d, m, opt) ==
    LET e == SetMax({n[2] : n \in {x \in DOMAIN d : x[1] = "model_state_epoch"}}) IN
    IF <<"training_state_epoch", e>> \in DOMAIN d
    THEN [ok |-> TRUE, model |-> d[<<"model_state_epoch", e>>].state_dict,
          optimizer |-> opt,
          epoch |-> d[<<"training_state_epoch", e>>].epoch]
    ELSE [ok |-> FALSE, model |-> m, optimizer |-> opt, epoch |-> 0]

\* mutant: the model file is applied before the training state is loaded
RestoreModelFirst(d, m, opt) ==
    LET e == SetMax({n[2] : n \in {x \in DOMAIN d : x[1] = "model_state_epoch"}}) IN
    IF <<"training_state_epoch", e>> \in DOMAIN d
    THEN [ok |-> TRUE, model |-> d[<<"model_state_epoch", e>>].state_dict,
          optimizer |-> d[<<"training_state_epoch", e>>].optimizer,
          epoch |-> d[<<"training_state_epoch", e>>].epoch]
    ELSE [ok |-> FALSE, model |-> d[<<"model_state_epoch", e>>].state_dict,
          optimizer |-> opt, epoch |-> 0]

\* _restore_checkpoint: both files are loaded before either is applied
RestoreCheckpoint(d, m, opt) ==
    LET e == EpochToLoad(d) IN
    IF TrainingStatePath(e) \in DOMAIN d
    THEN [ok |-> TRUE, model |-> d[ModelPath(e)].state_dict,
          optimizer |-> d[TrainingStatePath(e)].optimizer,
          epoch |-> d[TrainingStatePath(e)].epoch]
    ELSE [ok |-> FALSE, model |-> m, optimizer |-> opt, epoch |-> 0]

(* ---- initial state: the trainer after construction ---- *)
\* forward_without_loss is the task whose forward results have no "loss" key
\* (0: none); validation_metric_known says whether the configured validation
\* metric name is one of the names the tasks' metrics produce
Configs(patiences, directions, dirs, decays, floors, scheds, epochs, loads, passes, sizes, lossless, known, valsizes) ==
    [patience : patiences,
     validation_metric_decreases : directions,
     serialization_dir : dirs,
     lr_decay : decays,
     min_lr : floors,
     learning_rate_scheduler : scheds,
     num_epochs : epochs,
     load_model : loads,
     n_passes_per_epoch : passes,
     n_tr_batches : [Tasks -> sizes],
     n_val_batches : valsizes,
     forward_without_loss : lossless,
     validation_metric_known : known]

InitWith(configs) ==
    /\ cfg \in configs
    /\ pc = "idle"
    /\ status = "RUNNING"
    /\ calls = 0
    /\ model = FreshModel
    /\ optimizer = FreshOptimizer
    /\ dir = EmptyMap
    /\ epoch_counter = 0
    /\ epoch = 0
    /\ validation_metric_per_epoch = <<>>
    /\ task_infos = FreshTaskInfos
    /\ pass = 0
    /\ task_idx = 1
    /\ sliced = 0
    /\ tr_loss = 0
    /\ val_losses = [t \in Tasks |-> 0]
    /\ batch_num = 0
    /\ this_epoch_val_metric = NoValue
    /\ is_best_so_far = FALSE
    /\ restored = NoValue
    /\ written = {}
    /\ best_metric = NoValue
    /\ top_checkpoint = [epoch |-> NoValue, metric |-> NoValue]
    /\ saved = EmptyMap
    /\ window = <<>>
    /\ all_tr_metrics = EmptyMap
    /\ train_logs = [t \in Tasks |-> {}]
    /\ val_logs = [t \in Tasks |-> {}]
    /\ order = <<>>
    /\ lr_steps = <<>>
    /\ all_val_metrics = EmptyMap
    /\ val_order = <<>>
    /\ batch_num_totals = [t \in Tasks |-> <<>>]

\* stopping, learning rate and checkpoints of resumed runs, every task having
\* one training batch
Init ==
    InitWith(Configs(0..MaxPatience, BOOLEAN, BOOLEAN, BOOLEAN, {NoValue, MinLR},
                     BOOLEAN, {NumEpochs}, {TRUE}, {1}, {1}, {0} \cup Tasks, BOOLEAN,
                     {[t \in Tasks |-> 1]}))

\* the interleaving of tasks and passes in runs of one epoch, resumed or not,
\* under one stopping configuration
InitSched ==
    InitWith(Configs({1}, {TRUE}, {TRUE}, {TRUE}, {MinLR}, {FALSE}, {1}, BOOLEAN,
                     1..MaxPasses, 0..MaxTrainBatches, {0}, {TRUE},
                     {[t \in Tasks |-> 1], [t \in Tasks |-> t]}))

\* the batch counter over the passes and the epochs of runs of two epochs,
\* resumed or not, with tasks of two batches or more and no stop
InitSteps ==
    InitWith(Configs({MaxPatience}, {TRUE}, {TRUE}, {FALSE}, {MinLR}, {FALSE}, {2},
                     {TRUE}, 1..MaxPasses, {2, MaxTrainBatches}, {0}, {TRUE},
                     {[t \in Tasks |-> 1]}))

(* ---- train() ---- *)
\* the process is killed inside train(): memory (the model, the optimizer and
\* every local of train()) is lost, the directory stays
Kill ==
    /\ pc \notin {"idle", "returned"}
    /\ pc' = "returned"
    /\ status' = "KILLED"
    /\ model' = FreshModel
    /\ optimizer' = FreshOptimizer
    /\ epoch_counter' = 0
    /\ epoch' = 0
    /\ validation_metric_per_epoch' = <<>>
    /\ task_infos' = FreshTaskInfos
    /\ pass' = 0
    /\ task_idx' = 1
    /\ sliced' = 0
    /\ tr_loss' = 0
    /\ val_losses' = [t \in Tasks |-> 0]
    /\ batch_num' = 0
    /\ this_epoch_val_metric' = NoValue
    /\ is_best_so_far' = FALSE
    /\ restored' = NoValue
    /\ written' = {}
    /\ window' = <<>>
    /\ all_tr_metrics' = EmptyMap
    /\ train_logs' = [t \in Tasks |-> {}]
    /\ val_logs' = [t \in Tasks |-> {}]
    /\ order' = <<>>
    /\ lr_steps' = <<>>
    /\ all_val_metrics' = EmptyMap
    /\ val_order' = <<>>
    /\ batch_num_totals' = [t \in Tasks |-> <<>>]
    /\ UNCHANGED <<cfg, calls, dir, best_metric, top_checkpoint, saved>>

\* entry of train(), called on a newly constructed trainer: the optional
\* restore, then the per-task batch counts
TrainBegin ==
    /\ pc \in {"idle", "returned"}
    /\ calls < MaxCalls
    /\ calls' = calls + 1
    /\ written' = {}
    /\ window' = <<>>
    /\ all_tr_metrics' = EmptyMap
    /\ train_logs' = [t \in Tasks |-> {}]
    /\ val_logs' = [t \in Tasks |-> {}]
    /\ order' = <<>>
    /\ lr_steps' = <<>>
    /\ all_val_metrics' = EmptyMap
    /\ val_order' = <<>>
    /\ batch_num_totals' = [t \in Tasks |-> <<>>]
    /\ validation_metric_per_epoch' = <<>>
    /\ this_epoch_val_metric' = NoValue
    /\ is_best_so_far' = FALSE
    /\ pass' = 0
    /\ task_idx' = 1
    /\ sliced' = 0
    /\ tr_loss' = 0
    /\ val_losses' = [t \in Tasks |-> 0]
    /\ batch_num' = 0
    /\ IF cfg.serialization_dir /\ cfg.load_model /\ ModelCheckpoints(dir) # {}
       THEN LET r == RestoreCheckpoint(dir, FreshModel, FreshOptimizer) IN
            /\ model' = r.model
            /\ optimizer' = r.optimizer
            /\ IF r.ok
               THEN /\ epoch_counter' = r.epoch
                    /\ restored' = r.epoch
                    /\ status' = "RUNNING"
                    /\ pc' = "loop"
               ELSE /\ epoch_counter' = 0
                    /\ restored' = NoValue
                    /\ status' = "FileNotFoundError"
                    /\ pc' = "returned"
       ELSE /\ epoch_counter' = 0
            /\ restored' = NoValue
            /\ status' = "RUNNING"
            /\ pc' = "loop"
            /\ model' = FreshModel
            /\ optimizer' = FreshOptimizer
    /\ epoch' = epoch_counter'
    /\ task_infos' =
         [t \in Tasks |->
            [n_tr_batches |-> cfg.n_tr_batches[t],
             n_val_batches |-> cfg.n_val_batches[t],
             n_batches_per_pass |->
                 BatchesPerPass(cfg.n_tr_batches[t], cfg.n_passes_per_epoch),
             tr_generator |-> 0, loss |-> 0, n_batches_trained |-> 0]]
    /\ UNCHANGED <<cfg, dir, best_metric, top_checkpoint, saved>>

\* for epoch in range(epoch_counter, num_epochs): the next epoch's set-up, or the end
LoopHead ==
    /\ pc = "loop"
    /\ IF epoch < cfg.num_epochs
       THEN /\ task_infos' = [t \in Tasks |->
                 [task_infos[t] EXCEPT !.tr_generator = 0, !.loss = 0,
                                       !.n_batches_trained = 0]]
            /\ pass' = 0
            /\ task_idx' = 1
            /\ sliced' = 0
            /\ tr_loss' = 0
            /\ all_tr_metrics' = EmptyMap
            /\ order' = <<>>
            /\ lr_steps' = <<>>
            /\ pc' = "train"
            /\ UNCHANGED status
       ELSE /\ pc' = "returned"
            /\ status' = "STOPPED_MAX_EPOCHS"
            /\ UNCHANGED <<task_infos, pass, task_idx, sliced, tr_loss, all_tr_metrics,
                           order, lr_steps>>
    /\ UNCHANGED <<cfg, calls, model, optimizer, dir, epoch_counter, epoch,
                   validation_metric_per_epoch, val_losses, batch_num,
                   this_epoch_val_metric, is_best_so_far, restored, written,
                   best_metric, top_checkpoint, saved, window, train_logs, val_logs,
                   all_val_metrics, val_order, batch_num_totals>>

\* one batch of itertools.islice(tr_generator, n_batches_to_train)
TrainBatch ==
    /\ pc = "train"
    /\ sliced < task_infos[task_idx].n_batches_per_pass
    /\ task_infos[task_idx].tr_generator < cfg.n_tr_batches[task_idx]
    /\ order' = Append(order, <<pass, task_idx,
                                NextBatch(task_infos[task_idx].tr_generator, sliced)>>)
    /\ LET output_dict == Forward(task_idx, cfg.forward_without_loss)
           n_batches_trained == task_infos[task_idx].n_batches_trained + 1
       IN IF "loss" \in DOMAIN output_dict
          THEN /\ sliced' = sliced + 1
               /\ tr_loss' = tr_loss + output_dict.loss
               /\ model' = model + 1
               /\ optimizer' = [optimizer EXCEPT !.state = @ + 1]
               /\ task_infos' = [task_infos EXCEPT
                                   ![task_idx].tr_generator = @ + 1,
                                   ![task_idx].n_batches_trained = n_batches_trained,
                                   ![task_idx].loss = tr_loss + output_dict.loss]
               /\ batch_num_totals' =
                     [batch_num_totals EXCEPT
                        ![task_idx] = Append(@, BatchNumTotal(cfg.n_tr_batches[task_idx],
                                                              epoch, n_batches_trained))]
               /\ UNCHANGED <<pc, status>>
          ELSE /\ pc' = "returned"
               /\ status' = "ConfigurationError"
               /\ task_infos' = [task_infos EXCEPT
                                   ![task_idx] = [AbortedBatch(@, n_batches_trained)
                                                     EXCEPT !.tr_generator = @ + 1]]
               /\ UNCHANGED <<sliced, tr_loss, model, optimizer, batch_num_totals>>
    /\ UNCHANGED <<cfg, calls, dir, epoch_counter, epoch,
                   validation_metric_per_epoch, pass, task_idx, val_losses, batch_num,
                   this_epoch_val_metric, is_best_so_far, restored, written,
                   best_metric, top_checkpoint, saved, window, all_tr_metrics,
                   train_logs, val_logs, lr_steps, all_val_metrics, val_order>>

\* the islice is used up or the generator is exhausted: next task, next pass,
\* or on to validation
EndSlice ==
    /\ pc = "train"
    /\ \/ sliced >= task_infos[task_idx].n_batches_per_pass
       \/ task_infos[task_idx].tr_generator >= cfg.n_tr_batches[task_idx]
    /\ IF task_idx < NTasks
       THEN /\ task_idx' = task_idx + 1
            /\ tr_loss' = task_infos[task_idx + 1].loss
            /\ sliced' = 0
            /\ UNCHANGED <<pass, pc, status, val_losses, batch_num, all_tr_metrics,
                           all_val_metrics, val_order>>
       ELSE IF pass + 1 < cfg.n_passes_per_epoch
       THEN /\ pass' = pass + 1
            /\ task_idx' = 1
            /\ tr_loss' = task_infos[1].loss
            /\ sliced' = 0
            /\ UNCHANGED <<pc, status, val_losses, batch_num, all_tr_metrics,
                           all_val_metrics, val_order>>
       ELSE /\ \/ /\ all_tr_metrics' = OverallTrainingLogging(tr_loss, task_infos, Tasks)
                  /\ pc' = "validate"
                  /\ task_idx' = 1
                  /\ val_losses' = [t \in Tasks |-> 0]
                  /\ all_val_metrics' = EmptyMap
                  /\ val_order' = <<>>
                  /\ batch_num' = 0
                  /\ UNCHANGED status
               \/ /\ Untrained(task_infos) # {}
                  /\ all_tr_metrics' =
                        OverallTrainingLogging(tr_loss, task_infos,
                                               1..(SetMin(Untrained(task_infos)) - 1))
                  /\ pc' = "returned"
                  /\ status' = "BdbQuit"
                  /\ UNCHANGED <<task_idx, val_losses, batch_num, all_val_metrics,
                                 val_order>>
            /\ UNCHANGED <<pass, sliced, tr_loss>>
    /\ UNCHANGED <<cfg, calls, model, optimizer, dir, epoch_counter, epoch,
                   validation_metric_per_epoch, task_infos,
                   this_epoch_val_metric, is_best_so_far, restored, written,
                   best_metric, top_checkpoint, saved, window, train_logs, val_logs,
                   order, lr_steps, batch_num_totals>>

\* one validation batch of the current task
ValBatch ==
    /\ pc = "validate"
    /\ batch_num < cfg.n_val_batches[task_idx]
    /\ batch_num' = batch_num + 1
    /\ val_order' = Append(val_order, <<task_idx, batch_num, ValidationMode>>)
    /\ val_losses' = [val_losses EXCEPT ![task_idx] = @ + 1]
    /\ UNCHANGED <<cfg, pc, status, calls, model, optimizer, dir, epoch_counter, epoch,
                   validation_metric_per_epoch, task_infos, pass, task_idx, sliced,
                   tr_loss, this_epoch_val_metric, is_best_so_far, restored, written,
                   best_metric, top_checkpoint, saved, window, all_tr_metrics,
                   train_logs, val_logs, order, lr_steps, all_val_metrics,
                   batch_num_totals>>

\* the task's validation generator is exhausted: seal, then the next task
EndVal ==
    /\ pc = "validate"
    /\ batch_num >= cfg.n_val_batches[task_idx]
    /\ all_val_metrics' = Put(all_val_metrics, task_idx,
                              SealedValLoss(val_losses, task_idx, batch_num))
    /\ IF task_idx < NTasks
       THEN /\ task_idx' = task_idx + 1
            /\ batch_num' = 0
            /\ UNCHANGED <<pc, train_logs, val_logs>>
       ELSE /\ train_logs' = AddScalars(train_logs, task_idx, all_tr_metrics, epoch,
                                        cfg.serialization_dir)
            /\ val_logs' = AddScalars(val_logs, task_idx, all_tr_metrics, epoch,
                                      cfg.serialization_dir)
            /\ pc' = "stopcheck"
            /\ UNCHANGED <<task_idx, batch_num>>
    /\ UNCHANGED <<cfg, status, calls, model, optimizer, dir, epoch_counter, epoch,
                   validation_metric_per_epoch, task_infos, pass, sliced, tr_loss,
                   val_losses, this_epoch_val_metric, is_best_so_far, restored,
                   written, best_metric, top_checkpoint, saved, window, all_tr_metrics,
                   order, lr_steps, val_order, batch_num_totals>>

\* the lookup of the epoch's scalar v, the patience rule, the append and
\* is_best_so_far
StopCheck(v) ==
    /\ pc = "stopcheck"
    /\ IF LookupFails(cfg.validation_metric_known)
       THEN /\ pc' = "returned"
            /\ status' = "KeyError"
            /\ UNCHANGED <<this_epoch_val_metric, window, validation_metric_per_epoch,
                           is_best_so_far>>
       ELSE /\ this_epoch_val_metric' = v
            /\ window' = IF Len(validation_metric_per_epoch) > cfg.patience
                         THEN PySliceLast(validation_metric_per_epoch, cfg.patience)
                         ELSE <<>>
            /\ IF ShouldStop(validation_metric_per_epoch, v, cfg.patience,
                             cfg.validation_metric_decreases)
               THEN /\ pc' = StopTarget
                    /\ status' = "STOPPED_PATIENCE"
                    /\ validation_metric_per_epoch' =
                          HistoryAfter(validation_metric_per_epoch, v, TRUE)
                    /\ UNCHANGED is_best_so_far
               ELSE /\ validation_metric_per_epoch' =
                          HistoryAfter(validation_metric_per_epoch, v, FALSE)
                    /\ is_best_so_far' = IsBestSoFar(validation_metric_per_epoch', v,
                                                     cfg.validation_metric_decreases)
                    /\ pc' = AfterAppend(cfg.serialization_dir)
                    /\ UNCHANGED status
    /\ UNCHANGED <<cfg, calls, model, optimizer, dir, epoch_counter, epoch, task_infos,
                   pass, task_idx, sliced, tr_loss, val_losses, batch_num, restored,
                   written, best_metric, top_checkpoint, saved, all_tr_metrics,
                   train_logs, val_logs, order, lr_steps, all_val_metrics, val_order,
                   batch_num_totals>>

\* _save_checkpoint, first write: model_state_epoch_<epoch>.th
SaveModel ==
    /\ pc = "save_model"
    /\ dir' = Put(dir, ModelPath(epoch), ModelFile(model))
    /\ top_checkpoint' =
         IF \/ top_checkpoint.epoch \in {NoValue, epoch}
            \/ Better(this_epoch_val_metric, top_checkpoint.metric,
                      cfg.validation_metric_decreases)
         THEN [epoch |-> epoch, metric |-> this_epoch_val_metric]
         ELSE top_checkpoint
    /\ saved' = [e \in DOMAIN saved \ {epoch} |-> saved[e]]
    /\ pc' = "save_training"
    /\ UNCHANGED <<cfg, status, calls, model, optimizer, epoch_counter, epoch,
                   validation_metric_per_epoch, task_infos, pass, task_idx, sliced,
                   tr_loss, val_losses, batch_num, this_epoch_val_metric,
                   is_best_so_far, restored, written, best_metric, window,
                   all_tr_metrics, train_logs, val_logs, order, lr_steps,
                   all_val_metrics, val_order, batch_num_totals>>

\* _save_checkpoint, second write: training_state_epoch_<epoch>.th
SaveTrainingState ==
    /\ pc = "save_training"
    /\ dir' = Put(dir, TrainingStatePath(epoch), TrainingStateFile(epoch, optimizer))
    /\ saved' = Put(saved, epoch, [model |-> model, optimizer |-> optimizer])
    /\ written' = written \cup {epoch}
    /\ pc' = IF is_best_so_far THEN "copy_best" ELSE "lr"
    /\ UNCHANGED <<cfg, status, calls, model, optimizer, epoch_counter, epoch,
                   validation_metric_per_epoch, task_infos, pass, task_idx, sliced,
                   tr_loss, val_losses, batch_num, this_epoch_val_metric,
                   is_best_so_far, restored, best_metric, top_checkpoint, window,
                   all_tr_metrics, train_logs, val_logs, order, lr_steps,
                   all_val_metrics, val_order, batch_num_totals>>

\* _save_checkpoint, is_best: copy the model file to best.th
CopyBest ==
    /\ pc = "copy_best"
    /\ dir' = Put(dir, BestPath, dir[ModelPath(epoch)])
    /\ best_metric' = this_epoch_val_metric
    /\ pc' = "lr"
    /\ UNCHANGED <<cfg, status, calls, model, optimizer, epoch_counter, epoch,
                   validation_metric_per_epoch, task_infos, pass, task_idx, sliced,
                   tr_loss, val_losses, batch_num, this_epoch_val_metric,
                   is_best_so_far, restored, written, top_checkpoint, saved, window,
                   all_tr_metrics, train_logs, val_logs, order, lr_steps,
                   all_val_metrics, val_order, batch_num_totals>>

\* the scheduler step, the flat decay and the minimum-LR check
LrAdjust ==
    /\ pc = "lr"
    /\ optimizer' = [optimizer EXCEPT
                       !.lr = FlatDecay(SchedulerStep(optimizer.lr, cfg.learning_rate_scheduler),
                                       is_best_so_far, cfg.lr_decay)]
    /\ lr_steps' = LrSteps(cfg.learning_rate_scheduler, is_best_so_far, cfg.lr_decay)
    /\ IF cfg.min_lr = NoValue
       THEN /\ pc' = "returned"
            /\ status' = "TypeError"
            /\ UNCHANGED epoch
       ELSE IF MinLrHit(optimizer'.lr, cfg.min_lr)
       THEN /\ pc' = StopTarget
            /\ status' = "STOPPED_MIN_LR"
            /\ UNCHANGED epoch
       ELSE /\ pc' = "loop"
            /\ epoch' = epoch + 1
            /\ UNCHANGED status
    /\ UNCHANGED <<cfg, calls, model, dir, epoch_counter, validation_metric_per_epoch,
                   task_infos, pass, task_idx, sliced, tr_loss, val_losses, batch_num,
                   this_epoch_val_metric, is_best_so_far, restored, written,
                   best_metric, top_checkpoint, saved, window, all_tr_metrics,
                   train_logs, val_logs, order, all_val_metrics, val_order,
                   batch_num_totals>>

Next ==
    \/ TrainBegin
    \/ LoopHead
    \/ TrainBatch
    \/ EndSlice
    \/ ValBatch
    \/ EndVal
    \/ \E v \in Vals : StopCheck(v)
    \/ SaveModel
    \/ SaveTrainingState
    \/ CopyBest
    \/ LrAdjust
    \/ Kill

Spec == Init /\ [][Next]_vars

SpecSched == InitSched /\ [][Next]_vars

SpecSteps == InitSteps /\ [][Next]_vars

TypeOK ==
    /\ pc \in {"idle", "returned", "loop", "train", "validate", "stopcheck",
               "save_model", "save_training", "copy_best", "lr"}
    /\ status \in {"RUNNING", "STOPPED_PATIENCE", "STOPPED_MIN_LR",
                   "STOPPED_MAX_EPOCHS", "KILLED"} \cup Errors
    /\ optimizer.lr \in 1..InitLR
    /\ epoch \in 0..NumEpochs
    /\ calls \in 0..MaxCalls

(* ---- properties ---- *)
\* positions inside the body of the epoch loop
InEpoch == {"train", "validate", "stopcheck", "save_model", "save_training",
            "copy_best", "lr"}

\* positions of an epoch after its history append
AfterStopCheck == {"save_model", "save_training", "copy_best", "lr"}

PairInDir(e) == ModelPath(e) \in DOMAIN dir /\ TrainingStatePath(e) \in DOMAIN dir

\* the last n elements of s
LastN(s, n) == SubSeq(s, Len(s) - n + 1, Len(s))

\* s without its last element
Front(s) == SubSeq(s, 1, Len(s) - 1)

\* C1: a call that restored epoch index E runs only epochs of index E+1 and
\* above, so epoch E is not trained again and its artifacts are not rewritten.
C1_ResumesAfterRestoredEpoch ==
    (restored # NoValue /\ pc \in InEpoch) => epoch >= restored + 1

\* the patience rule as claimed: more than `patience` earlier scalars, and
\* every one of the last `patience` of them is strictly better than v
ClaimedPatienceStop(H, v) ==
    /\ Len(H) > cfg.patience
    /\ \A x \in Range(LastN(H, cfg.patience)) :
          IF cfg.validation_metric_decreases THEN x < v ELSE x > v

\* C2: training stops for patience iff len(H) > patience and the worst of the
\* last `patience` values of H is strictly better than the current scalar, in
\* the configured direction.
C2_PatienceRule ==
    /\ (pc = "returned" /\ status = "STOPPED_PATIENCE")
          => ClaimedPatienceStop(validation_metric_per_epoch, this_epoch_val_metric)
    /\ pc \in AfterStopCheck
          => ~ClaimedPatienceStop(Front(validation_metric_per_epoch),
                                  this_epoch_val_metric)

\* C3: in an epoch not stopped by patience, is_best_so_far is true iff no
\* scalar of the history, which ends with the current one, is strictly better
\* than the current one (ties count as best).
C3_IsBestSoFar ==
    pc \in AfterStopCheck =>
       LET H == validation_metric_per_epoch
           v == this_epoch_val_metric
       IN /\ Len(H) >= 1
          /\ H[Len(H)] = v
          /\ is_best_so_far <=>
                \A i \in DOMAIN H :
                   IF cfg.validation_metric_decreases THEN v <= H[i] ELSE v >= H[i]

\* C3 witness: the current scalar ties the best of the earlier epochs
C3_Witness ==
    /\ pc \in AfterStopCheck
    /\ is_best_so_far
    /\ Len(validation_metric_per_epoch) >= 3
    /\ \E i \in 1..(Len(validation_metric_per_epoch) - 1) :
          validation_metric_per_epoch[i] = this_epoch_val_metric
    /\ \E i \in 1..(Len(validation_metric_per_epoch) - 1) :
          validation_metric_per_epoch[i] # this_epoch_val_metric

\* C4: after every checkpoint save, best.th holds the weights of an epoch
\* whose scalar is the best among the epochs checkpointed in the directory,
\* earlier resumed runs included: no per-epoch checkpoint of the directory
\* scores strictly better; and best.th is a copy of a per-epoch artifact.
C4_BestIsBestOfDirectory ==
    (cfg.serialization_dir /\ pc = "lr" /\ (calls = 1 \/ restored # NoValue)) =>
       /\ BestPath \in DOMAIN dir
       /\ ModelPath(top_checkpoint.epoch) \in DOMAIN dir
       /\ ~Better(top_checkpoint.metric, best_metric, cfg.validation_metric_decreases)
       /\ is_best_so_far => dir[BestPath] = dir[ModelPath(epoch)]

\* the epoch at which a returned call stopped
TerminatingEpoch == IF status = "STOPPED_MAX_EPOCHS" THEN epoch - 1 ELSE epoch

\* C5, as stated: in every terminal state the pair of the terminating epoch
\* has been written.
C5_TerminatingEpochSaved ==
    (cfg.serialization_dir /\ pc = "returned"
       /\ status \in {"STOPPED_PATIENCE", "STOPPED_MIN_LR", "STOPPED_MAX_EPOCHS"})
    => PairInDir(TerminatingEpoch)

C5_Stopped ==
    status \in {"STOPPED_PATIENCE", "STOPPED_MIN_LR", "STOPPED_MAX_EPOCHS"}

C5_PairWrittenAtStop ==
    (cfg.serialization_dir /\ pc = "returned") =>
       /\ (status \in {"STOPPED_MIN_LR", "STOPPED_MAX_EPOCHS"}) =>
             (TerminatingEpoch \in written /\ PairInDir(TerminatingEpoch))
       /\ (status = "STOPPED_PATIENCE") =>
             (epoch \notin written /\ epoch - 1 \in written /\ PairInDir(epoch - 1))

\* C5, amended: a stop for minimum LR or maximum epochs finds the pair of the
\* terminating epoch written by this call; a stop for patience finds no pair
\* written by this call for the terminating epoch, the latest one written
\* being that of the epoch before; after any stop nothing is written.
C5_SavedUnlessPatience ==
    /\ [](C5_PairWrittenAtStop)
    /\ [][C5_Stopped => (dir' = dir)]_vars

\* C5 witness: a stop for patience with a directory configured
C5_Witness ==
    /\ cfg.serialization_dir
    /\ pc = "returned"
    /\ status = "STOPPED_PATIENCE"
    /\ epoch - 1 \in written
    /\ ModelPath(epoch) \notin DOMAIN dir

\* C6: for every epoch the directory holds both artifacts or neither.
C6_PairAtomic ==
    \A e \in 0..(NumEpochs - 1) :
       ModelPath(e) \in DOMAIN dir <=> TrainingStatePath(e) \in DOMAIN dir

\* the call has just restored and has not yet entered an epoch
JustRestored == pc = "loop" /\ restored # NoValue /\ epoch = epoch_counter

\* C7: restoring a directory whose highest-numbered checkpoint E was saved
\* completely gives back the model parameters and the optimizer state of the
\* moment of that save, and returns E.
C7_RoundTrip ==
    (JustRestored /\ EpochToLoad(dir) \in DOMAIN saved) =>
       LET E == EpochToLoad(dir) IN
       /\ model = saved[E].model
       /\ optimizer = saved[E].optimizer
       /\ epoch_counter = E
       /\ restored = E

\* C7 witness: a restore into a fresh process of a checkpoint taken after
\* training and after a learning-rate change
C7_Witness ==
    /\ JustRestored
    /\ EpochToLoad(dir) \in DOMAIN saved
    /\ status = "RUNNING"
    /\ model # FreshModel
    /\ optimizer.lr # InitLR
    /\ restored >= 1

\* C8: batches_per_pass is floor(n_train_batches / n_passes_per_epoch); every
\* pass draws exactly that many batches and never finds the cursor exhausted;
\* an epoch trains at most n_train_batches batches of a task and at least
\* n_train_batches - (n_passes_per_epoch - 1).
C8_BatchesPerPass ==
    pc \in InEpoch =>
       \A t \in Tasks :
          LET n == cfg.n_tr_batches[t]
              p == cfg.n_passes_per_epoch
              b == task_infos[t].n_batches_per_pass
              done == task_infos[t].n_batches_trained
              passes == IF pc # "train" THEN p
                        ELSE IF t < task_idx THEN pass + 1 ELSE pass
          IN /\ b * p <= n
             /\ n < (b + 1) * p
             /\ done = passes * b + (IF pc = "train" /\ t = task_idx THEN sliced ELSE 0)
             /\ task_infos[t].tr_generator = done
             /\ (pc = "train" /\ t = task_idx /\ sliced < b) => done < n
             /\ pc # "train" => (done <= n /\ n - done <= p - 1)

\* C8 witness: two passes over a task of three batches train two of them
C8_Witness ==
    /\ pc = "validate"
    /\ cfg.n_passes_per_epoch = 2
    /\ \E t \in Tasks :
          /\ cfg.n_tr_batches[t] = 3
          /\ task_infos[t].n_batches_trained = 2

\* C9: an epoch not stopped by patience ends in a stop for minimum LR iff the
\* learning rate left by the scheduler step and the flat decay is strictly
\* below min_lr; from 0.004 with decay 0.5 and min_lr 0.001 the stop comes at
\* 0.0005.
C9_MinLrStop ==
    /\ status = "STOPPED_MIN_LR" =>
          (cfg.min_lr # NoValue /\ optimizer.lr < cfg.min_lr)
    /\ (pc = "loop" /\ epoch > epoch_counter) =>
          (cfg.min_lr # NoValue /\ optimizer.lr >= cfg.min_lr)
    /\ (status = "STOPPED_MIN_LR" /\ calls = 1 /\ cfg.lr_decay
          /\ ~cfg.learning_rate_scheduler) =>
          (4 * optimizer.lr = 2 * MinLR /\ 8 * optimizer.lr = InitLR)

\* C9 witness: the stop at 0.0005, in the fourth epoch, after 0.002 and 0.001
C9_Witness ==
    /\ status = "STOPPED_MIN_LR"
    /\ calls = 1
    /\ cfg.lr_decay
    /\ ~cfg.learning_rate_scheduler
    /\ epoch = 3
    /\ 2 * optimizer.lr = MinLR

\* C10: once a stop for patience or minimum LR has fired, nothing of the
\* model, the optimizer, the directory, the history or the batch counters
\* changes until another call of train() begins.
C10_StopIsFinal ==
    [][(status \in {"STOPPED_PATIENCE", "STOPPED_MIN_LR"} /\ calls' = calls) =>
          UNCHANGED <<model, optimizer, dir, validation_metric_per_epoch,
                      task_infos, val_losses, batch_num, epoch, written>>]_vars

\* C10 witness: a call that stopped
C10_Witness ==
    /\ pc = "returned"
    /\ status \in {"STOPPED_PATIENCE", "STOPPED_MIN_LR"}
    /\ epoch >= 1

\* the ends of a call in which the claim of C11 lets the epochs stop short of
\* num_epochs: the two stops, a kill of the process, and the fatal errors the
\* specification names (a restore that fails, a forward result without
\* "loss", a validation metric name that is no key)
C11_EndsEarly ==
    {"STOPPED_PATIENCE", "STOPPED_MIN_LR", "KILLED", "FileNotFoundError",
     "ConfigurationError", "KeyError"}

\* C11: a call runs only epochs of index s .. num_epochs-1, s being 0 or the
\* restored index, and when neither the patience nor the minimum-LR stop
\* fires it returns only after the epoch of index num_epochs-1.
C11_RunsEveryEpoch ==
    /\ pc \in InEpoch => (epoch_counter <= epoch /\ epoch < cfg.num_epochs)
    /\ (pc = "returned" /\ status \notin C11_EndsEarly) =>
          (status = "STOPPED_MAX_EPOCHS" /\ epoch = cfg.num_epochs)

\* the islice of the running task has a batch to yield
C12_BatchReady ==
    /\ pc = "train"
    /\ sliced < task_infos[task_idx].n_batches_per_pass
    /\ task_infos[task_idx].tr_generator < cfg.n_tr_batches[task_idx]

\* what the claim of C12 says an abort leaves alone
C12_Untouched ==
    /\ UNCHANGED <<model, optimizer, dir, written, validation_metric_per_epoch,
                   val_losses, batch_num, epoch>>
    /\ \A t \in Tasks :
          /\ task_infos'[t].loss = task_infos[t].loss
          /\ task_infos'[t].n_batches_trained = task_infos[t].n_batches_trained

\* C12: a training batch whose forward result has no "loss" key ends train()
\* with a ConfigurationError at that batch: no optimizer step for it, the
\* task's recorded loss and batches-trained counter not advanced, and after
\* it no batch, validation or checkpoint until another call begins.
C12_MissingLossAborts ==
    [][(/\ (C12_BatchReady /\ cfg.forward_without_loss = task_idx
               /\ status' # "KILLED")
            => (status' = "ConfigurationError" /\ pc' = "returned" /\ C12_Untouched)
        /\ (status = "ConfigurationError" /\ calls' = calls)
            => (C12_Untouched /\ UNCHANGED <<task_infos, pc, status>>))]_vars

\* C12 witness: the second task's forward result has no "loss"; the abort
\* comes after the first task's batch was trained
C12_Witness ==
    /\ pc = "returned"
    /\ status = "ConfigurationError"
    /\ cfg.forward_without_loss = 2
    /\ task_infos[1].n_batches_trained = 1
    /\ task_infos[2].n_batches_trained = 0
    /\ task_infos[2].tr_generator = 1
    /\ model = FreshModel + 1

\* the history as the latest patience rule found it
C13_HistoryBefore ==
    IF status = "STOPPED_PATIENCE"
    THEN validation_metric_per_epoch
    ELSE Front(validation_metric_per_epoch)

\* C13: whenever the patience rule is evaluated, the values it compares the
\* current scalar with are exactly the `patience` most recent earlier scalars,
\* for every patience >= 0.
C13_WindowIsLastPatience ==
    (/\ pc \in AfterStopCheck \/ (pc = "returned" /\ status = "STOPPED_PATIENCE")
     /\ Len(C13_HistoryBefore) > cfg.patience)
    => window = LastN(C13_HistoryBefore, cfg.patience)

\* epochs of this call whose validation pass has completed
C14_Validated == epoch - epoch_counter + 1

C14_Evaluated ==
    pc \in AfterStopCheck \/ (pc = "returned" /\ status = "STOPPED_PATIENCE")

\* C14, as stated: after each epoch's stopping evaluation the history holds
\* one scalar for every epoch validated in the call, the epoch of a stop
\* included, the latest being that of the current epoch.
C14_OnePerValidatedEpoch ==
    C14_Evaluated =>
       /\ Len(validation_metric_per_epoch) = C14_Validated
       /\ validation_metric_per_epoch[C14_Validated] = this_epoch_val_metric

C14_Counts ==
    /\ pc \in AfterStopCheck =>
          /\ Len(validation_metric_per_epoch) = C14_Validated
          /\ validation_metric_per_epoch[C14_Validated] = this_epoch_val_metric
    /\ (pc = "returned" /\ status = "STOPPED_PATIENCE") =>
          Len(validation_metric_per_epoch) = C14_Validated - 1
    /\ pc \in {"train", "validate", "stopcheck"} =>
          Len(validation_metric_per_epoch) = C14_Validated - 1

C14_AppendOnly ==
    (calls' = calls /\ status' # "KILLED") =>
       \/ UNCHANGED validation_metric_per_epoch
       \/ /\ pc = "stopcheck"
          /\ pc' \in AfterStopCheck \cup {"lr"}
          /\ validation_metric_per_epoch' =
                Append(validation_metric_per_epoch, this_epoch_val_metric')

\* C14, amended: within one call the history is append-only; the scalar of an
\* epoch is appended after the patience rule and only when the rule does not
\* stop, so after the stopping evaluation the history holds one scalar for
\* every validated epoch in epoch order, except the epoch of a patience stop.
C14_AppendedUnlessPatienceStop ==
    /\ [](C14_Counts)
    /\ [][C14_AppendOnly]_vars

\* C14 witness: a patience stop in the third epoch of a call, the history
\* holding the two scalars of the epochs before
C14_Witness ==
    /\ pc = "returned"
    /\ status = "STOPPED_PATIENCE"
    /\ epoch - epoch_counter = 2
    /\ Len(validation_metric_per_epoch) = 2
    /\ this_epoch_val_metric \notin Range(validation_metric_per_epoch)

\* C15: at the end of every epoch, "<t>_loss" of all_tr_metrics is task t's
\* own running training loss of the epoch over task t's own number of batches
\* trained in it, for every task that trained at least one batch.
C15_OwnTrainingLoss ==
    pc \in {"validate", "stopcheck"} \cup AfterStopCheck =>
       \A t \in Tasks :
          task_infos[t].n_batches_trained >= 1 =>
             /\ t \in DOMAIN all_tr_metrics
             /\ all_tr_metrics[t] =
                   Average(task_infos[t].loss, task_infos[t].n_batches_trained)

\* C16: the epoch-end statistics of task t are written to task t's train and
\* validation streams and to no other task's, so every task's stream receives
\* its own statistics each epoch.
C16_OwnStream ==
    (cfg.serialization_dir /\ pc \in {"stopcheck"} \cup AfterStopCheck) =>
       \A t \in Tasks :
          /\ \A e \in train_logs[t] \cup val_logs[t] : e[1] = t
          /\ t \in DOMAIN all_tr_metrics =>
                (<<t, epoch>> \in train_logs[t] /\ <<t, epoch>> \in val_logs[t])

\* the batches of task t among the first n entries of the epoch's order,
\* those of pass p only
C17_Drawn(n, p, t) == {i \in 1..n : order[i][1] = p /\ order[i][2] = t}

\* the batches of task t among the first n entries, of every pass
C17_DrawnOfTask(n, t) == {i \in 1..n : order[i][2] = t}

\* C17: within an epoch the training batches are processed pass by pass and,
\* within a pass, task by task in index order, the batches_per_pass batches
\* of a task contiguously; a task's cursor goes on across the passes, so no
\* batch of a task is drawn twice in an epoch.
C17_PassMajorTaskOrder ==
    \A j \in DOMAIN order :
       LET b == order[j] IN
       /\ \A i \in 1..(j - 1) :
             /\ order[i][1] <= b[1]
             /\ order[i][1] = b[1] => order[i][2] <= b[2]
             /\ order[i][2] = b[2] => order[i][3] # b[3]
       /\ \A p \in 0..b[1], t \in Tasks :
             (p < b[1] \/ t < b[2]) =>
                Cardinality(C17_Drawn(j, p, t)) = task_infos[t].n_batches_per_pass
       /\ b[3] = Cardinality(C17_DrawnOfTask(j - 1, b[2]))
       /\ b[3] < cfg.n_tr_batches[b[2]]

\* C17 witness: two passes over two tasks of two batches or more: the second
\* pass of the first task comes after the first pass of the second task and
\* draws the batch after the one its first pass drew
C17_Witness ==
    /\ pc = "validate"
    /\ cfg.n_passes_per_epoch = 2
    /\ Len(order) >= 4
    /\ \E i, j, k \in DOMAIN order :
          /\ i < j /\ j < k
          /\ order[i][2] = 1 /\ order[j][2] = 2 /\ order[k][2] = 1
          /\ order[i][1] = 0 /\ order[j][1] = 0 /\ order[k][1] = 1
          /\ order[k][3] = order[i][3] + 1

\* the highest-numbered model checkpoint of the directory has no training state
C18_TornTop ==
    /\ ModelCheckpoints(dir) # {}
    /\ TrainingStatePath(EpochToLoad(dir)) \notin DOMAIN dir

\* no epoch of the call has begun
C18_NoEpochRun ==
    /\ epoch = 0
    /\ order = <<>>
    /\ validation_metric_per_epoch = <<>>
    /\ written = {}
    /\ \A t \in Tasks : task_infos[t].n_batches_trained = 0

\* C18: a call that is to restore from a directory whose highest-numbered
\* model checkpoint has no training state fails in the restore: the model
\* and the optimizer stay as they were before it, and no epoch is run.
C18_FailedRestoreAppliesNothing ==
    /\ [](status = "FileNotFoundError" =>
            /\ pc = "returned"
            /\ C18_TornTop
            /\ model = FreshModel
            /\ optimizer = FreshOptimizer
            /\ C18_NoEpochRun)
    /\ [][(calls' = calls + 1 /\ C18_TornTop /\ cfg.serialization_dir /\ cfg.load_model)
            => (status' = "FileNotFoundError" /\ dir' = dir)]_vars

\* C18 witness: the failed restore of a directory that holds the complete
\* pair of epoch 0 and, of epoch 1, only trained model parameters
C18_Witness ==
    /\ status = "FileNotFoundError"
    /\ EpochToLoad(dir) = 1
    /\ PairInDir(0)
    /\ dir[ModelPath(1)].state_dict # FreshModel
    /\ TrainingStatePath(1) \notin DOMAIN dir

\* how often the adjustment of the given kind is among the steps
C19_Count(steps, kind) == Cardinality({i \in DOMAIN steps : steps[i] = kind})

\* the learning rate the configured scheduler's one step leaves
C19_Scheduled == IF cfg.learning_rate_scheduler THEN optimizer.lr \div 2 ELSE optimizer.lr

\* C19: at the end of an epoch not stopped by patience the flat decay
\* multiplies the learning rate by lr_decay once iff is_best_so_far is false
\* and lr_decay is configured, and leaves it alone otherwise, whether or not
\* a scheduler stepped; a configured scheduler steps once, before the decay.
C19_FlatDecayOnce ==
    [][(pc = "lr" /\ status' # "KILLED") =>
          (/\ optimizer'.lr = IF ~is_best_so_far /\ cfg.lr_decay
                              THEN C19_Scheduled \div 2
                              ELSE C19_Scheduled
           /\ C19_Count(lr_steps', "lr_decay") =
                 IF ~is_best_so_far /\ cfg.lr_decay THEN 1 ELSE 0
           /\ C19_Count(lr_steps', "scheduler") =
                 IF cfg.learning_rate_scheduler THEN 1 ELSE 0
           /\ cfg.learning_rate_scheduler => lr_steps'[1] = "scheduler"
           /\ Len(lr_steps') <= 2)]_vars

\* C19 witness: the second epoch of a first call is not the best; the
\* scheduler has halved the rate twice and the flat decay once
C19_Witness ==
    /\ calls = 1
    /\ epoch = 1
    /\ ~is_best_so_far
    /\ lr_steps = <<"scheduler", "lr_decay">>
    /\ 8 * optimizer.lr = InitLR

\* what the claim of C20 says the abort leaves alone
C20_Untouched ==
    UNCHANGED <<validation_metric_per_epoch, dir, written, optimizer, lr_steps,
                model, epoch>>

\* C20: when the configured validation metric name is no key of the epoch's
\* validation metrics, train() aborts in that epoch before the stopping
\* evaluation: nothing is appended to the history, no checkpoint is written,
\* no scheduler step or decay is applied, then or later in the call.
C20_UnknownMetricAborts ==
    [][(/\ (pc = "stopcheck" /\ ~cfg.validation_metric_known /\ status' # "KILLED")
            => (status' = "KeyError" /\ pc' = "returned" /\ C20_Untouched)
        /\ (status = "KeyError" /\ calls' = calls)
            => (C20_Untouched /\ UNCHANGED <<pc, status>>))]_vars

\* C20 witness: the abort at the end of the first epoch's validation pass,
\* with a directory configured and nothing in it
C20_Witness ==
    /\ pc = "returned"
    /\ status = "KeyError"
    /\ cfg.serialization_dir
    /\ \A t \in Tasks : val_losses[t] = 1
    /\ validation_metric_per_epoch = <<>>
    /\ dir = EmptyMap
    /\ optimizer.lr = InitLR

\* the validation batches of task t among the epoch's forwarded ones
C21_ForwardedOf(t) == {i \in DOMAIN val_order : val_order[i][1] = t}

\* the validation pass of the epoch is over
C21_Validated == pc \in {"stopcheck"} \cup AfterStopCheck

C21_PassDone ==
    C21_Validated =>
       /\ \A i \in DOMAIN val_order :
             /\ val_order[i][3] = FALSE
             /\ \A j \in 1..(i - 1) :
                   /\ val_order[j][1] <= val_order[i][1]
                   /\ val_order[j][1] = val_order[i][1] => val_order[j][2] < val_order[i][2]
       /\ \A t \in Tasks :
             /\ {val_order[i][2] : i \in C21_ForwardedOf(t)} = 0..(cfg.n_val_batches[t] - 1)
             /\ Cardinality(C21_ForwardedOf(t)) = cfg.n_val_batches[t]
             /\ t \in DOMAIN all_val_metrics
             /\ all_val_metrics[t] * cfg.n_val_batches[t] = val_losses[t] * AvgUnit

C21_Frame ==
    (pc = "validate" /\ status' # "KILLED") =>
       UNCHANGED <<model, optimizer, dir, written, lr_steps, order, task_infos>>

\* C21: the validation pass of an epoch forwards every validation batch of
\* every task once, with for_training false, tasks in index order, after the
\* training batches of the epoch; it steps no optimizer, writes no checkpoint
\* and changes no learning rate, so the model and the optimizer leave it as
\* they entered it; the recorded "<task>_loss" is the task's accumulated
\* validation loss over its number of validation batches.
C21_ValidationPass ==
    /\ [](C21_PassDone)
    /\ [][C21_Frame]_vars

\* C21 witness: a validated epoch in which the second task had two validation
\* batches and the model had been trained before the pass
C21_Witness ==
    /\ C21_Validated
    /\ cfg.n_val_batches[2] = 2
    /\ val_losses[2] = 2
    /\ all_val_metrics[2] = AvgUnit
    /\ Len(order) >= 2
    /\ model # FreshModel

\* C22: with min_lr left at None the minimum-LR check neither stops nor
\* aborts a call: no call ends in the stop for minimum LR or in the error of
\* the comparison.
C22_UnsetMinLrNeverEnds ==
    cfg.min_lr = NoValue => status \notin {"STOPPED_MIN_LR", "TypeError"}

\* the training passes of the epoch are over
C23_Trained ==
    \/ pc \in {"validate", "stopcheck"} \cup AfterStopCheck
    \/ pc = "returned" /\ status = "BdbQuit"

\* C23: whatever the number of passes, a task with at least one training
\* batch has trained at least one batch when the passes of an epoch are over.
C23_NoTaskStarved ==
    C23_Trained =>
       \A t \in Tasks :
          cfg.n_tr_batches[t] >= 1 => task_infos[t].n_batches_trained >= 1

\* C24: within one call the global batch counter of a task, n_tr_batches *
\* epoch + n_batches_trained, grows strictly from each training batch of the
\* task to the next, across passes and across epochs.
C24_BatchCounterIncreases ==
    \A t \in Tasks :
       \A j \in DOMAIN batch_num_totals[t] :
          \A i \in 1..(j - 1) : batch_num_totals[t][i] < batch_num_totals[t][j]

\* C24 witness: a task of two batches trained in two passes in each of two
\* epochs of one call
C24_Witness ==
    /\ epoch - epoch_counter = 1
    /\ cfg.n_passes_per_epoch = 2
    /\ \E t \in Tasks :
          /\ cfg.n_tr_batches[t] = 2
          /\ Len(batch_num_totals[t]) = 4

====
